---------------------------- MODULE Spec2Model ----------------------------
(***************************************************************************)
(* Model of src/app.py: the listing pipeline of the dashboard.             *)
(*                                                                         *)
(*   load_data (cached)  ->  sidebar widgets + filter  ->  KPI means and   *)
(*   format_won  ->  detail panel                                          *)
(*                                                                         *)
(* Number representations                                                  *)
(*   raw JSON number : [k |-> "null"|"num", t] with t the value in tenths  *)
(*                     (t = 15 is 1.5), so that non-integer input exists.  *)
(*   Python int      : a TLA+ integer (the *_won columns, the sliders).    *)
(*   float64         : [k |-> "nan"|"inf"|"ninf"|"num", n, d], n/d reduced *)
(*                     with d > 0; arithmetic is exact (no binary rounding)*)
(*   str             : a sequence of one-character strings; the unit       *)
(*                     characters U+C5B5, U+B9CC and U+B144 are written    *)
(*                     "eok", "man" and "nyeon".                           *)
(***************************************************************************)
EXTENDS Integers, Sequences, FiniteSets

VARIABLES
    source,    \* state of nemostore/api_sample.json on disk
    doc,       \* data['items'] of the file when it is readable
    cache,     \* st.cache_data entry of load_data
    pc,        \* position of the current run of main
    df,        \* main: df
    criteria,  \* main: the values returned by the five sidebar widgets
    filtered,  \* main: filtered_df
    avg,       \* main: avg_rent, avg_deposit, avg_premium, avg_area_price, avg_maint
    kpi,       \* main: the five st.metric texts
    detail     \* main: the three lines of the st.info block

vars == <<source, doc, cache, pc, df, criteria, filtered, avg, kpi, detail>>

-----------------------------------------------------------------------------
(* Bounds *)

\* longest item list of the JSON document built from the curated pool
MaxListings == 2

-----------------------------------------------------------------------------
(* Arithmetic helpers *)

Abs(x) == IF x < 0 THEN -x ELSE x

RECURSIVE GCD(_, _)
GCD(a, b) == IF b = 0 THEN a ELSE GCD(b, a % b)

RECURSIVE Pow10(_)
Pow10(k) == IF k = 0 THEN 1 ELSE 10 * Pow10(k - 1)

\* float64 values
NaN == [k |-> "nan", n |-> 0, d |-> 1]
PosInf == [k |-> "inf", n |-> 0, d |-> 1]
NegInf == [k |-> "ninf", n |-> 0, d |-> 1]

\* the float n/d, d # 0
Frac(n, d) ==
    LET g == GCD(Abs(n), Abs(d))
        s == IF d < 0 THEN -1 ELSE 1
    IN  [k |-> "num", n |-> s * (n \div g), d |-> s * (d \div g)]

IsNum(x) == x.k = "num"

\* numpy true division of two floats (operands here are never infinite)
FloatDiv(a, b) ==
    IF ~IsNum(a) \/ ~IsNum(b) THEN NaN
    ELSE IF b.n = 0
         THEN IF a.n = 0 THEN NaN ELSE IF a.n > 0 THEN PosInf ELSE NegInf
         ELSE Frac(a.n * b.d, a.d * b.n)

\* float * Python int
FloatMul(a, m) ==
    IF IsNum(a) THEN Frac(a.n * m, a.d)
    ELSE IF a.k = "nan" \/ m = 0 THEN NaN
    ELSE IF (a.k = "inf") = (m > 0) THEN PosInf ELSE NegInf

\* Series.replace(0, float('nan')) on one int64 cell
ReplaceZero(x) == IF x = 0 THEN NaN ELSE Frac(x, 1)

-----------------------------------------------------------------------------
(* Raw JSON numbers *)

Null == [k |-> "null", t |-> 0]
Num(whole) == [k |-> "num", t |-> 10 * whole]
Dec(tenths) == [k |-> "num", t |-> tenths]

\* pd.isna(val) or val is None
IsNa(v) == v.k = "null"

\* int(val): truncation toward zero
PyInt(v) == IF v.t < 0 THEN -((-v.t) \div 10) ELSE v.t \div 10

\* a DataFrame cell of a numeric column holding a raw JSON number
ToFloat(v) == IF IsNa(v) THEN NaN ELSE Frac(v.t, 10)

-----------------------------------------------------------------------------
(* convert_to_won *)

convert_to_won_x1000(val) == IF IsNa(val) THEN 0 ELSE PyInt(val) * 1000

convert_to_won(val) == IF IsNa(val) THEN 0 ELSE PyInt(val) * 10000

-----------------------------------------------------------------------------
(* load_data: the derived columns of one row *)

roi_noguard(monthlyRent_won, total_investment) ==
    FloatMul(FloatDiv(Frac(monthlyRent_won * 12, 1), Frac(total_investment, 1)), 100)

roi_of(monthlyRent_won, total_investment) ==
    FloatMul(FloatDiv(Frac(monthlyRent_won * 12, 1), ReplaceZero(total_investment)), 100)

payback_guard_investment(total_investment, monthlyRent_won) ==
    FloatDiv(ReplaceZero(total_investment), Frac(monthlyRent_won * 12, 1))

payback_period_of(total_investment, monthlyRent_won) ==
    FloatDiv(Frac(total_investment, 1), ReplaceZero(monthlyRent_won * 12))

premium_per_size_of(premium_won, size) ==
    FloatDiv(Frac(premium_won, 1), ToFloat(size))

Enrich(item) ==
    LET deposit_won == convert_to_won(item.deposit)
        monthlyRent_won == convert_to_won(item.monthlyRent)
        premium_won == convert_to_won(item.premium)
        maintenanceFee_won == convert_to_won(item.maintenanceFee)
        total_investment == deposit_won + premium_won
    IN  [title |-> item.title,
         businessLargeCodeName |-> item.businessLargeCodeName,
         floor |-> item.floor,
         deposit |-> item.deposit,
         monthlyRent |-> item.monthlyRent,
         premium |-> item.premium,
         maintenanceFee |-> item.maintenanceFee,
         size |-> item.size,
         areaPrice |-> item.areaPrice,
         deposit_won |-> deposit_won,
         monthlyRent_won |-> monthlyRent_won,
         premium_won |-> premium_won,
         maintenanceFee_won |-> maintenanceFee_won,
         total_investment |-> total_investment,
         roi |-> roi_of(monthlyRent_won, total_investment),
         payback_period |-> payback_period_of(total_investment, monthlyRent_won),
         premium_per_size |-> premium_per_size_of(premium_won, item.size)]

EnrichAll(items) == [i \in 1..Len(items) |-> Enrich(items[i])]

-----------------------------------------------------------------------------
(* Python string formatting of floats: f"{x:.1f}", f"{x:,.0f}", f"{x:.2f}" *)

DigitChar(d) == <<"0", "1", "2", "3", "4", "5", "6", "7", "8", "9">>[d + 1]

RECURSIVE Digits(_)
Digits(n) == IF n < 10 THEN <<DigitChar(n)>>
             ELSE Digits(n \div 10) \o <<DigitChar(n % 10)>>

\* exactly w digits, zero padded
RECURSIVE PadDigits(_, _)
PadDigits(n, w) == IF w = 0 THEN <<>>
                   ELSE PadDigits(n \div 10, w - 1) \o <<DigitChar(n % 10)>>

\* the "," option: thousands separators
RECURSIVE Grouped(_)
Grouped(n) == IF n < 1000 THEN Digits(n)
              ELSE Grouped(n \div 1000) \o <<",">> \o PadDigits(n % 1000, 3)

\* n/d (d > 0) rounded to the nearest integer, ties to even
RoundHalfEven(n, d) ==
    LET q == n \div d
        r == n - q * d
    IN  IF 2 * r > d THEN q + 1
        ELSE IF 2 * r < d THEN q
        ELSE IF q % 2 = 0 THEN q ELSE q + 1

\* format(x, ".<dec>f") or format(x, ",.<dec>f")
FormatFixed(x, dec, comma) ==
    IF x.k = "nan" THEN <<"n", "a", "n">>
    ELSE IF x.k = "inf" THEN <<"i", "n", "f">>
    ELSE IF x.k = "ninf" THEN <<"-", "i", "n", "f">>
    ELSE LET scaled == Abs(RoundHalfEven(x.n * Pow10(dec), x.d))
             whole == scaled \div Pow10(dec)
         IN  (IF x.n < 0 THEN <<"-">> ELSE <<>>)
             \o (IF comma THEN Grouped(whole) ELSE Digits(whole))
             \o (IF dec > 0 THEN <<".">> \o PadDigits(scaled % Pow10(dec), dec)
                 ELSE <<>>)

\* val >= c for a float val and an int c (False for NaN)
FloatGe(val, c) ==
    \/ val.k = "inf"
    \/ IsNum(val) /\ val.n >= c * val.d

-----------------------------------------------------------------------------
(* format_won *)

format_won(val) ==
    IF FloatGe(val, 100000000)
    THEN FormatFixed(FloatDiv(val, Frac(100000000, 1)), 1, FALSE) \o <<"eok">>
    ELSE FormatFixed(FloatDiv(val, Frac(10000, 1)), 0, TRUE) \o <<"man">>

-----------------------------------------------------------------------------
(* Series.mean(): skips NaN, NaN when nothing is left *)

FloatAdd(a, b) == Frac(a.n * b.d + b.n * a.d, a.d * b.d)

RECURSIVE SumSeq(_)
SumSeq(xs) == IF xs = <<>> THEN Frac(0, 1)
              ELSE FloatAdd(xs[1], SumSeq(Tail(xs)))

Mean_fillna_zero(xs) ==
    IF xs = <<>> THEN Frac(0, 1)
    ELSE FloatDiv(SumSeq([i \in 1..Len(xs) |-> IF IsNum(xs[i]) THEN xs[i] ELSE Frac(0, 1)]),
                  Frac(Len(xs), 1))

Mean(xs) ==
    LET valid == SelectSeq(xs, IsNum)
    IN  IF valid = <<>> THEN NaN
        ELSE FloatDiv(SumSeq(valid), Frac(Len(valid), 1))

\* the five KPI means of main, in card order
Averages(rows) ==
    <<Mean([i \in 1..Len(rows) |-> Frac(rows[i].monthlyRent_won, 1)]),
      Mean([i \in 1..Len(rows) |-> Frac(rows[i].deposit_won, 1)]),
      Mean([i \in 1..Len(rows) |-> Frac(rows[i].premium_won, 1)]),
      Mean([i \in 1..Len(rows) |-> ToFloat(rows[i].areaPrice)]),
      Mean([i \in 1..Len(rows) |-> Frac(rows[i].maintenanceFee_won, 1)])>>

\* the five st.metric texts
Cards(a) ==
    <<format_won(a[1]), format_won(a[2]), format_won(a[3]),
      FormatFixed(a[4], 0, TRUE) \o <<"man">>, format_won(a[5])>>

-----------------------------------------------------------------------------
(* Sidebar widgets and the filter *)

Isin_negated(x, values) == x \notin values

\* Series.isin(values)
Isin(x, values) == x \in values

Between_exclusive_right(v, lo, hi) == ~IsNa(v) /\ lo <= v.t /\ v.t < hi

Between_na_as_zero(v, lo, hi) ==
    LET t == IF IsNa(v) THEN 0 ELSE v.t IN lo <= t /\ t <= hi

\* Series.between(lo, hi) on one cell, bounds in tenths: inclusive, False for NaN
Between(v, lo, hi) == ~IsNa(v) /\ lo <= v.t /\ v.t <= hi

\* the boolean mask of one row
Keep(row, c) ==
    /\ Isin(row.businessLargeCodeName, c.business)
    /\ Isin(row.floor, c.floors)
    /\ Between(row.monthlyRent, 10 * c.rent[1], 10 * c.rent[2])
    /\ Between(row.deposit, 10 * c.deposit[1], 10 * c.deposit[2])
    /\ Between(row.size, c.size[1], c.size[2])

\* df[mask]
Filter(rows, c) == SelectSeq(rows, LAMBDA row : Keep(row, c))

Column(rows, f) == {rows[i][f] : i \in 1..Len(rows)}

\* Series.max(): the largest non-null cell (in tenths); callers check HasMax
HasMax(rows, f) == \E v \in Column(rows, f) : ~IsNa(v)
ColumnMax(rows, f) ==
    CHOOSE v \in Column(rows, f) :
        ~IsNa(v) /\ \A w \in Column(rows, f) : ~IsNa(w) => w.t <= v.t

\* st.slider(label, 0, hi, (0, hi)): the (lo, hi) pairs the widget can return.
\* Positions are restricted to 0, the maximum and the positions ticks names.
Slider(hi, ticks) ==
    LET stops == {0, hi} \cup {s \in ticks : 0 <= s /\ s <= hi}
    IN  {<<a, b>> : a \in stops, b \in stops} \cap {p \in Int \X Int : p[1] <= p[2]}

\* The three sliders can be built: int(df[col].max()) raises ValueError when the
\* column holds no number (max is NaN), and st.slider rejects a maximum below
\* its minimum 0 (or a NaN maximum, for size). A slider with maximum 0 is taken
\* to return (0, 0).
SidebarOk(rows) ==
    /\ HasMax(rows, "monthlyRent") /\ PyInt(ColumnMax(rows, "monthlyRent")) >= 0
    /\ HasMax(rows, "deposit") /\ PyInt(ColumnMax(rows, "deposit")) >= 0
    /\ HasMax(rows, "size") /\ ColumnMax(rows, "size").t >= 0

IntTicks(rows, f) == {PyInt(v) : v \in {w \in Column(rows, f) : ~IsNa(w)}}
FloatTicks(rows, f) == {v.t : v \in {w \in Column(rows, f) : ~IsNa(w)}}

\* every value the five widgets can hand to the filter
CriteriaSpace(rows) ==
    [business : SUBSET Column(rows, "businessLargeCodeName"),
     floors : SUBSET Column(rows, "floor"),
     rent : Slider(PyInt(ColumnMax(rows, "monthlyRent")), IntTicks(rows, "monthlyRent")),
     deposit : Slider(PyInt(ColumnMax(rows, "deposit")), IntTicks(rows, "deposit")),
     size : Slider(ColumnMax(rows, "size").t, FloatTicks(rows, "size"))]

\* the widgets' defaults: everything selected, every range [0, max]
DefaultCriteria(rows) ==
    [business |-> Column(rows, "businessLargeCodeName"),
     floors |-> Column(rows, "floor"),
     rent |-> <<0, PyInt(ColumnMax(rows, "monthlyRent"))>>,
     deposit |-> <<0, PyInt(ColumnMax(rows, "deposit"))>>,
     size |-> <<0, ColumnMax(rows, "size").t>>]

NoCriteria ==
    [business |-> {}, floors |-> {}, rent |-> <<0, 0>>, deposit |-> <<0, 0>>,
     size |-> <<0, 0>>]

-----------------------------------------------------------------------------
(* Detail panel *)

\* filtered_df[filtered_df['title'] == selected_title].iloc[0]
FirstWithTitle(rows, t) ==
    rows[CHOOSE i \in 1..Len(rows) :
            rows[i].title = t /\ \A j \in 1..(i - 1) : rows[j].title # t]

DetailText(item) ==
    <<format_won(Frac(item.total_investment, 1)),
      FormatFixed(item.roi, 2, FALSE) \o <<"%">>,
      FormatFixed(item.payback_period, 1, FALSE) \o <<"nyeon">>>>

-----------------------------------------------------------------------------
(* Input documents *)

Item(title, business, floor, deposit, monthlyRent, premium, fee, size, areaPrice) ==
    [title |-> title, businessLargeCodeName |-> business, floor |-> floor,
     deposit |-> deposit, monthlyRent |-> monthlyRent, premium |-> premium,
     maintenanceFee |-> fee, size |-> size, areaPrice |-> areaPrice]

\* records for documents of several items: the spec's example, a vacant unit,
\* a record with null amounts and size, one with a negative deposit and size 0,
\* one with non-integer amounts
Pool ==
    {Item("T1", "food", 1, Num(1000), Num(50), Num(2000), Num(10), Num(30), Dec(55)),
     Item("T2", "retail", 2, Num(0), Num(0), Num(0), Null, Num(30), Null),
     Item("T1", "food", 2, Null, Null, Num(2000), Num(5), Null, Num(4)),
     Item("T3", "retail", 1, Num(-1000), Num(50), Num(1000), Num(0), Num(0), Num(9)),
     Item("T4", "retail", 2, Dec(10005), Dec(505), Dec(-15), Dec(25), Num(30), Dec(12))}

\* field values for documents of one item
Deposits == {Null, Num(0), Num(1000), Num(-1000), Dec(15), Num(15000)}
Rents == {Null, Num(0), Num(50), Dec(505)}
Premiums == {Null, Num(0), Num(2000), Dec(-15)}
Sizes == {Null, Num(0), Num(30), Dec(125)}

SingleDocs ==
    {<<Item("T1", "food", 1, d, r, p, Num(10), z, Dec(55))>> :
        d \in Deposits, r \in Rents, p \in Premiums, z \in Sizes}

PoolDocs == UNION {[1..n -> Pool] : n \in 0..MaxListings}

Docs == SingleDocs \cup PoolDocs

SourceKinds == {"ok", "missing", "unreadable", "nocollection"}

-----------------------------------------------------------------------------
(* State machine: runs of main *)

NoEntry == [hit |-> FALSE, value |-> <<>>]

Init ==
    /\ doc \in Docs
    /\ source \in SourceKinds
    /\ cache = NoEntry
    /\ pc = "idle"
    /\ df = <<>>
    /\ criteria = NoCriteria
    /\ filtered = <<>>
    /\ avg = <<>>
    /\ kpi = <<>>
    /\ detail = <<>>

\* the file is edited, removed or restored between two runs
SourceChange ==
    /\ pc = "idle"
    /\ \E s \in SourceKinds \ {source} : source' = s
    /\ UNCHANGED <<doc, cache, pc, df, criteria, filtered, avg, kpi, detail>>

\* load_data() served by st.cache_data: the body does not run
LoadCached ==
    /\ pc = "idle"
    /\ cache.hit
    /\ df' = cache.value
    /\ pc' = "loaded"
    /\ UNCHANGED <<source, doc, cache, criteria, filtered, avg, kpi, detail>>

\* load_data() runs to its return; its result is cached
LoadFresh ==
    /\ pc = "idle"
    /\ ~cache.hit
    /\ source = "ok"
    /\ doc # <<>>
    /\ df' = EnrichAll(doc)
    /\ cache' = [hit |-> TRUE, value |-> EnrichAll(doc)]
    /\ pc' = "loaded"
    /\ UNCHANGED <<source, doc, criteria, filtered, avg, kpi, detail>>

LoadNotFound_empty_frame ==
    /\ pc = "idle"
    /\ ~cache.hit
    /\ source = "missing"
    /\ pc' = "loaded"
    /\ UNCHANGED <<source, doc, cache, df, criteria, filtered, avg, kpi, detail>>

\* open() raises FileNotFoundError: main reports it and returns
LoadNotFound ==
    /\ pc = "idle"
    /\ ~cache.hit
    /\ source = "missing"
    /\ pc' = "not_found"
    /\ UNCHANGED <<source, doc, cache, df, criteria, filtered, avg, kpi, detail>>

\* open(), json.load(), data['items'] or df['deposit'] raises anything else:
\* the exception leaves main
LoadRaises ==
    /\ pc = "idle"
    /\ ~cache.hit
    /\ \/ source \in {"unreadable", "nocollection"}
       \/ source = "ok" /\ doc = <<>>
    /\ pc' = "load_raised"
    /\ UNCHANGED <<source, doc, cache, df, criteria, filtered, avg, kpi, detail>>

\* int(nan) raises ValueError, or st.slider rejects max_value < min_value
SidebarRaises ==
    /\ pc = "loaded"
    /\ ~SidebarOk(df)
    /\ pc' = "sidebar_raised"
    /\ UNCHANGED <<source, doc, cache, df, criteria, filtered, avg, kpi, detail>>

\* the sidebar widgets return their values and the mask is applied
ApplyFilter ==
    /\ pc = "loaded"
    /\ SidebarOk(df)
    /\ \E c \in CriteriaSpace(df) :
          /\ criteria' = c
          /\ filtered' = Filter(df, c)
    /\ pc' = "filtered"
    /\ UNCHANGED <<source, doc, cache, df, avg, kpi, detail>>

\* the five KPI cards
KpiCards ==
    /\ pc = "filtered"
    /\ avg' = Averages(filtered)
    /\ kpi' = Cards(Averages(filtered))
    /\ pc' = "kpi"
    /\ UNCHANGED <<source, doc, cache, df, criteria, filtered, detail>>

\* the detail panel of the selected title
DetailPanel ==
    /\ pc = "kpi"
    /\ filtered # <<>>
    /\ \E t \in Column(filtered, "title") :
          detail' = DetailText(FirstWithTitle(filtered, t))
    /\ pc' = "done"
    /\ UNCHANGED <<source, doc, cache, df, criteria, filtered, avg, kpi>>

\* st.warning: nothing passed the filter
DetailEmpty ==
    /\ pc = "kpi"
    /\ filtered = <<>>
    /\ pc' = "done"
    /\ UNCHANGED <<source, doc, cache, df, criteria, filtered, avg, kpi, detail>>

\* the script ends; the next run starts with fresh locals
Rerun ==
    /\ pc \in {"done", "not_found", "load_raised", "sidebar_raised"}
    /\ pc' = "idle"
    /\ df' = <<>>
    /\ criteria' = NoCriteria
    /\ filtered' = <<>>
    /\ avg' = <<>>
    /\ kpi' = <<>>
    /\ detail' = <<>>
    /\ UNCHANGED <<source, doc, cache>>

Next ==
    \/ SourceChange
    \/ LoadCached
    \/ LoadFresh
    \/ LoadNotFound
    \/ LoadRaises
    \/ SidebarRaises
    \/ ApplyFilter
    \/ KpiCards
    \/ DetailPanel
    \/ DetailEmpty
    \/ Rerun

Spec == Init /\ [][Next]_vars

-----------------------------------------------------------------------------
(* Properties *)

Rows == {df[i] : i \in 1..Len(df)}

AmountFields == {"deposit", "monthlyRent", "premium", "maintenanceFee"}

WonField(f) ==
    [deposit |-> "deposit_won", monthlyRent |-> "monthlyRent_won",
     premium |-> "premium_won", maintenanceFee |-> "maintenanceFee_won"][f]

IsWhole(v) == ~IsNa(v) /\ v.t % 10 = 0

C2_Theorem ==
    \A row \in Rows :
        /\ row.total_investment = row.deposit_won + row.premium_won
        /\ row.roi = NaN <=> row.total_investment = 0
        /\ row.total_investment # 0 =>
              /\ IsNum(row.roi)
              /\ row.total_investment % 10000 = 0
              /\ row.monthlyRent_won % 10000 = 0
              /\ row.roi.n * (row.total_investment \div 10000)
                   = row.roi.d * (row.monthlyRent_won \div 10000) * 12 * 100
        /\ (row.deposit = Num(1000) /\ row.monthlyRent = Num(50)
              /\ row.premium = Num(2000)) =>
              row.total_investment = 30000000 /\ row.roi = Frac(20, 1)

C2_Witness ==
    /\ pc = "loaded"
    /\ \E row \in Rows : row.total_investment = 30000000 /\ row.roi = Frac(20, 1)
    /\ \E row \in Rows : row.total_investment = 0 /\ row.roi = NaN

\* C3: paybackPeriod is undefined exactly when monthlyRentWon is 0 and otherwise
\* equals totalInvestment / (monthlyRentWon * 12).
C3_Theorem ==
    \A row \in Rows :
        /\ row.payback_period = NaN <=> row.monthlyRent_won = 0
        /\ row.monthlyRent_won # 0 =>
              /\ IsNum(row.payback_period)
              /\ row.total_investment % 10000 = 0
              /\ row.monthlyRent_won % 10000 = 0
              /\ row.payback_period.n * (row.monthlyRent_won \div 10000) * 12
                   = row.payback_period.d * (row.total_investment \div 10000)

C3_Witness ==
    /\ pc = "loaded"
    /\ \E row \in Rows : row.monthlyRent_won = 0 /\ row.total_investment # 0
                         /\ row.payback_period = NaN
    /\ \E row \in Rows : row.monthlyRent_won = 500000
                         /\ row.payback_period = Frac(5, 1)

\* C4 as stated: premiumPerSize is the undefined value whenever size is zero or
\* missing (never zero, never infinite), and premiumWon / size for size > 0.
C4_AsClaimed ==
    \A row \in Rows :
        /\ (IsNa(row.size) \/ row.size.t = 0) => row.premium_per_size = NaN
        /\ (~IsNa(row.size) /\ row.size.t > 0) =>
              /\ IsNum(row.premium_per_size)
              /\ row.premium_per_size.n * row.size.t
                   = row.premium_per_size.d * row.premium_won * 10

\* the run is past the filter
PastFilter == pc \in {"filtered", "kpi", "done"}

\* c2 is componentwise wider than c1
Wider(c1, c2) ==
    /\ c1.business \subseteq c2.business
    /\ c1.floors \subseteq c2.floors
    /\ c2.rent[1] <= c1.rent[1] /\ c1.rent[2] <= c2.rent[2]
    /\ c2.deposit[1] <= c1.deposit[1] /\ c1.deposit[2] <= c2.deposit[2]
    /\ c2.size[1] <= c1.size[1] /\ c1.size[2] <= c2.size[2]

\* a is b with some elements left out
RECURSIVE IsSubSeq(_, _)
IsSubSeq(a, b) ==
    IF a = <<>> THEN TRUE
    ELSE IF b = <<>> THEN FALSE
    ELSE IF a[1] = b[1] THEN IsSubSeq(Tail(a), Tail(b))
    ELSE IsSubSeq(a, Tail(b))

\* C5: filter monotonicity: for the criteria of the run and every componentwise
\* wider criteria the widgets can return, every listing of the run's filter
\* result is in the wider criteria's result.
C5_Theorem ==
    pc = "filtered" =>
        \A c2 \in CriteriaSpace(df) :
            Wider(criteria, c2) => IsSubSeq(filtered, Filter(df, c2))

C5_Witness ==
    /\ pc = "filtered"
    /\ filtered # <<>>
    /\ \E c2 \in CriteriaSpace(df) :
          /\ Wider(criteria, c2)
          /\ c2.rent # criteria.rent
          /\ c2.business # criteria.business
          /\ Len(Filter(df, c2)) > Len(filtered)

\* the five predicates of the filter, on the raw fields of one listing
InRange(v, lo, hi) == v.k = "num" /\ 10 * lo <= v.t /\ v.t <= 10 * hi
Satisfies(row, c) ==
    /\ row.businessLargeCodeName \in c.business
    /\ row.floor \in c.floors
    /\ InRange(row.monthlyRent, c.rent[1], c.rent[2])
    /\ InRange(row.deposit, c.deposit[1], c.deposit[2])
    /\ row.size.k = "num" /\ c.size[1] <= row.size.t /\ row.size.t <= c.size[2]

\* the k-th smallest element of a set of indices
Nth(S, k) == CHOOSE i \in S : Cardinality({j \in S : j <= i}) = k

C6_WitnessBoundary ==
    /\ pc = "filtered"
    /\ Len(df) = 2
    /\ criteria.rent = <<50, 50>>
    /\ criteria.deposit = <<0, 1000>>
    /\ filtered = <<df[1]>>
    /\ df[1].monthlyRent = Num(50) /\ df[1].deposit = Num(1000)

\* sum of the defined areaPrice cells, in tenths, and their number
RECURSIVE AreaSum(_)
AreaSum(rows) ==
    IF rows = <<>> THEN 0
    ELSE (IF rows[1].areaPrice.k = "num" THEN rows[1].areaPrice.t ELSE 0)
         + AreaSum(Tail(rows))
AreaCount(rows) == Cardinality({i \in 1..Len(rows) : rows[i].areaPrice.k = "num"})

RECURSIVE WonSum(_, _)
WonSum(rows, f) == IF rows = <<>> THEN 0 ELSE rows[1][f] + WonSum(Tail(rows), f)

KpiField(i) ==
    <<"monthlyRent_won", "deposit_won", "premium_won", "areaPrice",
      "maintenanceFee_won">>[i]

\* C7: the KPI step yields five means and five texts for every filter result;
\* over an empty filter result every mean is the undefined value; a mean runs over the listings where the field is defined
\* (null areaPrice cells are skipped) and is undefined when there is none.
C7_Theorem ==
    pc \in {"kpi", "done"} =>
          /\ Len(avg) = 5 /\ Len(kpi) = 5
          /\ filtered = <<>> => \A i \in 1..5 : avg[i] = NaN
          /\ avg[4] = NaN <=> AreaCount(filtered) = 0
          /\ AreaCount(filtered) > 0 =>
                /\ IsNum(avg[4])
                /\ avg[4].n * 10 * AreaCount(filtered) = avg[4].d * AreaSum(filtered)
          /\ filtered # <<>> =>
                \A i \in {1, 2, 3, 5} :
                    /\ IsNum(avg[i])
                    /\ avg[i].n * Len(filtered) = avg[i].d * WonSum(filtered, KpiField(i))

C7_Witness ==
    /\ pc = "kpi"
    /\ df # <<>>
    /\ filtered = <<>>
    /\ avg = <<NaN, NaN, NaN, NaN, NaN>>

C7_WitnessSkipsNull ==
    /\ pc = "kpi"
    /\ Len(filtered) = 2
    /\ AreaCount(filtered) = 1
    /\ avg[4] = Frac(55, 10)

Last(text) == text[Len(text)]

\* C8 as stated: for an undefined mean format_won gives a "no data" text that
\* does not follow the patterns <number>eok / <number>man; a defined value
\* >= 100,000,000 is rendered in eok with one decimal (150000000: 1.5eok), any
\* other in man without decimals (5000000: 500man).
C8_AsClaimed ==
    pc \in {"kpi", "done"} =>
        \A i \in {1, 2, 3, 5} :
            /\ avg[i] = NaN => Last(kpi[i]) \notin {"eok", "man"}
            /\ IsNum(avg[i]) /\ avg[i].n >= 100000000 * avg[i].d =>
                  /\ Last(kpi[i]) = "eok"
                  /\ kpi[i][Len(kpi[i]) - 2] = "."
            /\ IsNum(avg[i]) /\ avg[i].n < 100000000 * avg[i].d =>
                  /\ Last(kpi[i]) = "man"
                  /\ \A j \in 1..Len(kpi[i]) : kpi[i][j] # "."
            /\ avg[i] = Frac(150000000, 1) => kpi[i] = <<"1", ".", "5", "eok">>
            /\ avg[i] = Frac(5000000, 1) => kpi[i] = <<"5", "0", "0", "man">>

\* C8 restricted to defined values holds
C8_DefinedOnly ==
    pc \in {"kpi", "done"} =>
        \A i \in {1, 2, 3, 5} :
            /\ IsNum(avg[i]) /\ avg[i].n >= 100000000 * avg[i].d =>
                  /\ Last(kpi[i]) = "eok"
                  /\ kpi[i][Len(kpi[i]) - 2] = "."
            /\ IsNum(avg[i]) /\ avg[i].n < 100000000 * avg[i].d =>
                  /\ Last(kpi[i]) = "man"
                  /\ \A j \in 1..Len(kpi[i]) : kpi[i][j] # "."
            /\ avg[i] = Frac(150000000, 1) => kpi[i] = <<"1", ".", "5", "eok">>
            /\ avg[i] = Frac(5000000, 1) => kpi[i] = <<"5", "0", "0", "man">>

LocalsEmpty ==
    /\ df = <<>> /\ criteria = NoCriteria /\ filtered = <<>>
    /\ avg = <<>> /\ kpi = <<>> /\ detail = <<>>

LoadFailed == pc \in {"not_found", "load_raised"}

\* C9 as stated: whenever the source is unreadable or absent the run fails at
\* load and no filter, aggregate or format step runs.
C9_AsClaimed ==
    (pc # "idle" /\ source # "ok") => LoadFailed /\ LocalsEmpty

\* C9 (amended): whenever the source is unreadable or absent and no snapshot is
\* cached, the run fails at load, nothing is cached and no later step runs;
\* a failed load happens only without a cached snapshot; and every run started
\* with a usable source loads its snapshot, whatever failed before.
C9_Theorem ==
    /\ []((pc # "idle" /\ (source # "ok" \/ doc = <<>>) /\ ~cache.hit)
            => LoadFailed /\ LocalsEmpty)
    /\ [](LoadFailed => ~cache.hit /\ LocalsEmpty /\ (source # "ok" \/ doc = <<>>))
    /\ [](source = "missing" /\ LoadFailed => pc = "not_found")
    /\ [][(pc = "idle" /\ pc' # "idle" /\ source = "ok" /\ doc # <<>>)
            => (pc' = "loaded" /\ cache'.hit /\ df' = EnrichAll(doc)
                /\ cache'.value = df')]_vars

C9_Witness ==
    /\ pc = "not_found"
    /\ source = "missing"
    /\ doc # <<>>
    /\ ~cache.hit
    /\ LocalsEmpty

\* C10: no listing whose raw monthlyRent, deposit or size is null or negative
\* is ever in the filter result, the default widest criteria included.
C10_Theorem ==
    PastFilter =>
        \A k \in 1..Len(filtered) : \A f \in {"monthlyRent", "deposit", "size"} :
            filtered[k][f].k = "num" /\ filtered[k][f].t >= 0

C10_Witness ==
    /\ pc = "filtered"
    /\ criteria = DefaultCriteria(df)
    /\ Len(df) = 2
    /\ filtered = <<df[1]>>
    /\ IsNa(df[2].monthlyRent) /\ df[2].monthlyRent_won = 0

C10_WitnessNegative ==
    /\ pc = "filtered"
    /\ criteria = DefaultCriteria(df)
    /\ Len(df) = 2
    /\ filtered = <<df[1]>>
    /\ df[2].deposit = Num(-1000)

=============================================================================
